---- MODULE Spec2Model ----
(***************************************************************************)
(* A model of protocol.go: one Connection (client or server role) with its *)
(* channel table, id allocator, Reader, Writer, per-channel dispatchers    *)
(* and the application tasks that send, create and close.                  *)
(*                                                                         *)
(* Sizes that the program fixes at 16 MiB, 512 and 2^32-1 are scaled to    *)
(* small numbers (MaxPacketSize, MaxPathLen, MaxUint32); the code compares *)
(* against them and never depends on their magnitude.                      *)
(***************************************************************************)
EXTENDS Integers, Sequences, FiniteSets, TLC

\* ---------------------------------------------------------------- constants
MaxPathLen == 2        \* scaled: 512 in the program
MaxPacketSize == 2     \* scaled: 16 MiB in the program
MaxUint32 == 2         \* scaled: math.MaxUint32 in the program
RoleClient == 0
RoleServer == 4
StatusC0 == 0
StatusC1 == 1
StatusC2 == 2
StatusC3 == 3
StatusS4 == 4
StatusS5 == 5
StatusS6 == 6
StatusS7 == 7
Status8 == 8
NoStatus == 255        \* packetStatus of a channel that has received nothing

\* ------------------------------------------------------------------- bounds
MaxChans == 4          \* channel objects ever created, the system channel included
MaxDataLen == 5        \* longest message an application task sends
MaxFrames == 3         \* frames the Reader takes from the socket
RecvCtlOps == 1
SendCtlOps == 1        \* operations of the controlling task while the application sends
ChanCtlOps == 4        \* operations of the controlling task on its own
WriteQueueLen == 2     \* writeQueueLen given to NewConnection
RecvQueueLen == 2      \* queueLen given to newChannel

\* ------------------------------------------------------------------ threads
Reader == <<"reader", 0>>
Writer == <<"writer", 0>>
Ctl == <<"ctl", 0>>
Producers == {<<"prod", 1>>, <<"prod", 2>>}
ChanObjs == 0 .. (MaxChans - 1)
Disp(c) == <<"disp", c>>
Dispatchers == {Disp(c) : c \in ChanObjs}
Threads == {Reader, Writer, Ctl} \cup Producers \cup Dispatchers
NoThread == <<"none", 0>>
NoChan == 0 - 1

VARIABLES
    Role,            \* Connection.Role
    Channels,        \* Connection.Channels: channel id -> channel object
    MaxChannelId,    \* Connection.MaxChannelId
    FreeChannleId,   \* Connection.FreeChannleId
    connErr,         \* Connection.err ("nil" while open)
    connCloseLock,   \* Connection.closeLock: the thread inside Close, or NoThread
    connNotify,      \* Connection.closeNotify is open
    tcpOpen,         \* the socket has not been closed by Connection.Close
    tcpWriteQueue,   \* Connection.tcpWriteQueue
    chans,           \* the Channel objects
    nextObj,         \* number of Channel objects created so far
    pc,              \* each thread's position
    snd,             \* each thread's SendPacket frame: packet, remainDataSize, firstSend
    clo,             \* each thread's Channel.Close frame: the channel and the reason
    ccVisited,       \* Connection.Close: ids the range over m.Channels has produced
    res,             \* result of each thread's last SendPacket
    pktWhole,        \* each dispatcher's pktWholeRequest / pktWholeResponse
    handled,         \* last handler invocation of each dispatcher (observation)
    reqAcc,          \* payloads dequeued since the last completed frame (observation)
    nRead,           \* frames the Reader has taken from the socket
    rdPkt,           \* the packet the Reader is about to put on a receivedQueue
    enqLog,          \* per channel object: frames the Reader has enqueued, in order (observation)
    deqLog,          \* per channel object: frames the dispatcher has dequeued, in order (observation)
    respChan,        \* per channel object: the response delivery endpoint (CtxResponseChan)
    newCh,           \* newChannel: the Channel allocated and not yet in the table
    opsLeft,         \* operations the controlling task still starts
    removeCount,     \* calls of removeConn / removeConnection
    outLast,         \* per channel object: status of the last frame put on tcpWriteQueue
    outOwner,        \* per channel object: the thread inside an unfinished fragment burst
    codec            \* a packet taken through CreateNetPacket and the Reader's frame parser

\* the state of a connection
connVars == <<Role, Channels, MaxChannelId, FreeChannleId, connErr, connCloseLock,
              connNotify, tcpOpen, tcpWriteQueue, chans, nextObj, pc, snd, clo,
              ccVisited, res, pktWhole, handled, reqAcc, nRead, rdPkt, enqLog,
              deqLog, respChan, newCh, opsLeft, removeCount, outLast, outOwner>>

vars == <<codec, Role, Channels, MaxChannelId, FreeChannleId, connErr, connCloseLock,
          connNotify, tcpOpen, tcpWriteQueue, chans, nextObj, pc, snd, clo,
          ccVisited, res, pktWhole, handled, reqAcc, nRead, rdPkt, enqLog,
          deqLog, respChan, newCh, opsLeft, removeCount, outLast, outOwner>>

\* ------------------------------------------------------------ status helpers
isClientStatus(status) == status \in {StatusC0, StatusC1, StatusC2, StatusC3}
isServerStatus(status) == status \in {StatusS4, StatusS5, StatusS6, StatusS7}
isClientStatusCompleted(status) == status \in {StatusC1, StatusC3}
isClientStatusUncompleted(status) == status \in {StatusC0, StatusC2}
isServerStatusCompleted(status) == status \in {StatusS5, StatusS7}
isServerStatusUncompleted(status) == status \in {StatusS4, StatusS6}

\* a check that lets a continuation frame start a request
CheckClientPacketStatusLax(prev, current) ==
    CASE current \in {StatusC0, StatusC1} ->
            ~(prev # NoStatus /\ ~isClientStatusCompleted(prev))
      [] current \in {StatusC2, StatusC3} -> ~isClientStatusCompleted(prev)
      [] current = Status8 -> TRUE
      [] OTHER -> FALSE

\* TRUE iff the function returns nil
CheckClientPacketStatus(prev, current) ==
    CASE current \in {StatusC0, StatusC1} ->
            ~(prev # NoStatus /\ ~isClientStatusCompleted(prev))
      [] current \in {StatusC2, StatusC3} -> isClientStatusUncompleted(prev)
      [] current = Status8 -> TRUE
      [] OTHER -> FALSE

CheckServerPacketStatus(prev, current) ==
    CASE current \in {StatusS4, StatusS5} ->
            ~(prev # NoStatus /\ ~isServerStatusCompleted(prev))
      [] current \in {StatusS6, StatusS7} -> isServerStatusUncompleted(prev)
      [] current = Status8 -> TRUE
      [] OTHER -> FALSE

\* ------------------------------------------------------------------ packets
Packet(status, path, cid, data, ch) ==
    [Status |-> status, Path |-> path, ChannelId |-> cid, Data |-> data, channel |-> ch]
NoPacket == Packet(NoStatus, <<>>, NoChan, <<>>, NoChan)

\* CreateNetPacket returns an error
CreateNetPacketFails(pkt) ==
    Len(pkt.Path) > MaxPathLen \/ Len(pkt.Data) > MaxPacketSize

NoSend == [pkt |-> NoPacket, remain |-> 0, first |-> TRUE, burst |-> <<>>]
NoClose == [ch |-> NoChan, err |-> "nil"]

NewChannelRecord(id) ==
    [Id |-> id, err |-> "nil", packetStatus |-> NoStatus, receivedQueue |-> <<>>,
     closeNotify |-> TRUE, closeLock |-> 0, sendLock |-> NoThread]

\* where a thread continues when the outermost call it made returns
Base(t) ==
    CASE t = Ctl -> "idle"
      [] t \in Producers -> "p_done"
      [] OTHER -> "done"

\* --------------------------------------------------------- Channel.SendPacket
\* chunkSize of one pass of the fragmentation loop
ChunkSize(remain) == IF remain < MaxPacketSize THEN remain ELSE MaxPacketSize

\* a status choice that marks every unfinished chunk as a first frame
ChunkStatusAlwaysFirst(role, first, chunkSize, remain) ==
    IF chunkSize = remain
    THEN IF role = RoleClient THEN (IF first THEN 1 ELSE 3)
                              ELSE (IF first THEN 5 ELSE 7)
    ELSE IF role = RoleClient THEN 0 ELSE 4

\* chunk.Status of one pass of the fragmentation loop
ChunkStatus(role, first, chunkSize, remain) ==
    IF chunkSize = remain
    THEN IF role = RoleClient THEN (IF first THEN 1 ELSE 3)
                              ELSE (IF first THEN 5 ELSE 7)
    ELSE IF role = RoleClient THEN (IF first THEN 0 ELSE 2)
                              ELSE (IF first THEN 4 ELSE 6)

\* pkt.Status set on the unfragmented path
SingleStatus(role) == IF role = RoleClient THEN 1 ELSE 5

\* the frame the next enqueue of a SendPacket frame puts on tcpWriteQueue
NextFrame(s, chs) ==
    IF Len(s.pkt.Data) <= MaxPacketSize
    THEN [s.pkt EXCEPT !.Status = SingleStatus(Role)]
    ELSE LET chunkSize == ChunkSize(s.remain)
             start == Len(s.pkt.Data) - s.remain
         IN  Packet(ChunkStatus(Role, s.first, chunkSize, s.remain), s.pkt.Path,
                    chs[s.pkt.channel].Id,
                    SubSeq(s.pkt.Data, start + 1, start + chunkSize), s.pkt.channel)

\* remainDataSize after that enqueue (0 on the unfragmented path)
NextRemain(s) ==
    IF Len(s.pkt.Data) <= MaxPacketSize THEN 0 ELSE s.remain - ChunkSize(s.remain)

\* m.sendLock.Lock() can be taken
SendLockFreeNoLock(c) == TRUE
SendLockFree(c) == chans[c].sendLock = NoThread

\* where thread t continues when its SendPacket returns
AfterSend(t) ==
    IF clo[t].ch # NoChan THEN "chc_rest"
    ELSE IF t \in Dispatchers THEN "dp_loop" ELSE Base(t)

SetRes(t, r) == IF t \in Producers THEN [res EXCEPT ![t] = r] ELSE res

\* t calls m.SendPacket(pkt) on channel object pkt.channel; chs is chans as the
\* caller leaves it.  Sets pc', snd', res'.
CallSendPacket(t, pkt, chs) ==
    IF chs[pkt.channel].err # "nil"
    THEN /\ pc' = [pc EXCEPT ![t] = AfterSend(t)]
         /\ res' = SetRes(t, "err")
         /\ snd' = snd
    ELSE /\ pc' = [pc EXCEPT ![t] = "sp_lock"]
         /\ snd' = [snd EXCEPT ![t] = [pkt |-> pkt, remain |-> Len(pkt.Data),
                                       first |-> TRUE, burst |-> <<>>]]
         /\ res' = res

SendLock(t) ==
    /\ pc[t] = "sp_lock"
    /\ SendLockFree(snd[t].pkt.channel)
    /\ chans' = [chans EXCEPT ![snd[t].pkt.channel].sendLock = t]
    /\ pc' = [pc EXCEPT ![t] = "sp_enq"]
    /\ UNCHANGED <<codec, Role, Channels, MaxChannelId, FreeChannleId, connErr, connCloseLock,
                   connNotify, tcpOpen, tcpWriteQueue, nextObj, snd, clo, ccVisited,
                   res, pktWhole, handled, reqAcc, nRead, rdPkt, enqLog, deqLog,
                   respChan, newCh, opsLeft, removeCount, outLast, outOwner>>

\* m.conn.tcpWriteQueue <- pkt, and what follows it up to the next enqueue or the return
SendEnqueue(t) ==
    /\ pc[t] = "sp_enq"
    /\ Len(tcpWriteQueue) < WriteQueueLen
    /\ LET s == snd[t]
           c == s.pkt.channel
           f == NextFrame(s, chans)
           r == NextRemain(s)
       IN  /\ tcpWriteQueue' = Append(tcpWriteQueue, f)
           /\ outLast' = [outLast EXCEPT ![c] = f.Status]
           /\ IF r <= 0
              THEN /\ chans' = [chans EXCEPT ![c].sendLock = NoThread]
                   /\ pc' = [pc EXCEPT ![t] = AfterSend(t)]
                   /\ snd' = [snd EXCEPT ![t] = NoSend]
                   /\ res' = SetRes(t, "ok")
                   /\ outOwner' = [outOwner EXCEPT ![c] = NoThread]
              ELSE /\ snd' = [snd EXCEPT ![t] = [s EXCEPT !.remain = r, !.first = FALSE,
                                                         !.burst = Append(s.burst, f)]]
                   /\ outOwner' = [outOwner EXCEPT ![c] = t]
                   /\ UNCHANGED <<codec, chans, pc, res>>
    /\ UNCHANGED <<codec, Role, Channels, MaxChannelId, FreeChannleId, connErr, connCloseLock,
                   connNotify, tcpOpen, nextObj, clo, ccVisited, pktWhole, handled,
                   reqAcc, nRead, rdPkt, enqLog, deqLog, respChan, newCh, opsLeft,
                   removeCount>>

\* -------------------------------------------------------------- Channel.Close
\* where thread t continues when a Channel.Close it called returns
AfterChanClose(t) == IF connCloseLock = t THEN "cc_loop" ELSE Base(t)

\* t calls c.Close(e); chs is chans as the caller leaves it.
\* Sets chans', pc', snd', clo', res'.
CallChanClose(t, c, e, chs) ==
    IF chs[c].closeLock # 0
    THEN /\ chans' = chs
         /\ pc' = [pc EXCEPT ![t] = AfterChanClose(t)]
         /\ UNCHANGED <<codec, snd, clo, res>>
    ELSE /\ chans' = [chs EXCEPT ![c].closeLock = 1]
         /\ clo' = [clo EXCEPT ![t] = [ch |-> c, err |-> e]]
         /\ res' = res
         /\ IF chs[c].err # "nil"
            THEN /\ pc' = [pc EXCEPT ![t] = "chc_rest"]
                 /\ snd' = snd
            ELSE /\ pc' = [pc EXCEPT ![t] = "sp_lock"]
                 /\ snd' = [snd EXCEPT ![t] =
                              [pkt |-> Packet(0, <<>>, chs[c].Id, <<>>, c),
                               remain |-> 0, first |-> TRUE, burst |-> <<>>]]

\* m.Channels and m.FreeChannleId after removeChannel(c)
RemoveChannelTable(tbl, id) == [i \in (DOMAIN tbl) \ {id} |-> tbl[i]]
RemoveChannelFree(free, id) == free \cup {id}

\* the channel's err after Close(e)
CloseErr(old, e) == e

\* Channel.Close after its SendPacket: removeChannel, m.err, close(closeNotify),
\* and the deferred store to closeLock
ChanCloseRest(t) ==
    /\ pc[t] = "chc_rest"
    /\ LET c == clo[t].ch
       IN  /\ Channels' = RemoveChannelTable(Channels, chans[c].Id)
           /\ FreeChannleId' = RemoveChannelFree(FreeChannleId, chans[c].Id)
           /\ chans' = [chans EXCEPT ![c].err = CloseErr(chans[c].err, clo[t].err),
                                     ![c].closeNotify = FALSE,
                                     ![c].closeLock = 0]
    /\ clo' = [clo EXCEPT ![t] = NoClose]
    /\ pc' = [pc EXCEPT ![t] = AfterChanClose(t)]
    /\ UNCHANGED <<codec, Role, MaxChannelId, connErr, connCloseLock, connNotify, tcpOpen,
                   tcpWriteQueue, nextObj, snd, ccVisited, res, pktWhole, handled,
                   reqAcc, nRead, rdPkt, enqLog, deqLog, respChan, newCh, opsLeft,
                   removeCount, outLast, outOwner>>

\* ----------------------------------------------------------- Connection.Close
\* t calls m.Close(e): the compare-and-swap, m.err, the registry removal and the
\* socket close.  Sets connErr', connCloseLock', tcpOpen', removeCount',
\* ccVisited', pc'.
CallConnClose(t, e) ==
    IF connCloseLock # NoThread
    THEN /\ pc' = [pc EXCEPT ![t] = Base(t)]
         /\ UNCHANGED <<codec, connErr, connCloseLock, tcpOpen, removeCount, ccVisited>>
    ELSE /\ connCloseLock' = t
         /\ connErr' = e
         /\ removeCount' = removeCount + 1
         /\ tcpOpen' = FALSE
         /\ ccVisited' = {}
         /\ pc' = [pc EXCEPT ![t] = "cc_loop"]

\* one pass of  for _, v := range m.Channels { v.Close(...) }
ConnCloseChannel(t) ==
    /\ pc[t] = "cc_loop"
    /\ \E id \in (DOMAIN Channels) \ ccVisited :
          /\ ccVisited' = ccVisited \cup {id}
          /\ CallChanClose(t, Channels[id], "connection is closed", chans)
    /\ UNCHANGED <<codec, Role, Channels, MaxChannelId, FreeChannleId, connErr, connCloseLock,
                   connNotify, tcpOpen, tcpWriteQueue, nextObj, pktWhole, handled,
                   reqAcc, nRead, rdPkt, enqLog, deqLog, respChan, newCh, opsLeft,
                   removeCount, outLast, outOwner>>

\* the range is exhausted: close(closeNotify) and the deferred store to closeLock
ConnCloseEnd(t) ==
    /\ pc[t] = "cc_loop"
    /\ (DOMAIN Channels) \ ccVisited = {}
    /\ connNotify' = FALSE
    /\ connCloseLock' = NoThread
    /\ pc' = [pc EXCEPT ![t] = Base(t)]
    /\ UNCHANGED <<codec, Role, Channels, MaxChannelId, FreeChannleId, connErr, tcpOpen,
                   tcpWriteQueue, chans, nextObj, snd, clo, ccVisited, res, pktWhole,
                   handled, reqAcc, nRead, rdPkt, enqLog, deqLog, respChan, newCh,
                   opsLeft, removeCount, outLast, outOwner>>

\* ------------------------------------------------- newChannel, makeNewChannelId
\* the results makeNewChannelId can give: the id, and the allocator afterwards
\* (the range over the FreeChannleId map yields any of its keys)
MakeNewChannelId(free, max) ==
    IF free # {}
    THEN {[id |-> k, free |-> free \ {k}, max |-> max] : k \in free}
    ELSE IF max < MaxUint32
         THEN {[id |-> max + 1, free |-> free, max |-> max + 1]}
         ELSE {[id |-> 0, free |-> free, max |-> max]}

\* m.Channels after  m.Channels[ret.Id] = ret
InsertChannel(tbl, id, obj) == (id :> obj) @@ tbl

\* channel objects the application holds a reference to
Held == (0 .. (nextObj - 1)) \ {newCh}

\* newChannel(false, n) up to the return of makeNewChannelId
CtlNewChannelAlloc ==
    /\ pc[Ctl] = "idle"
    /\ opsLeft > 0
    /\ nextObj < MaxChans
    /\ \E r \in MakeNewChannelId(FreeChannleId, MaxChannelId) :
          /\ FreeChannleId' = r.free
          /\ MaxChannelId' = r.max
          /\ chans' = [chans EXCEPT ![nextObj] = NewChannelRecord(r.id)]
    /\ newCh' = nextObj
    /\ nextObj' = nextObj + 1
    /\ opsLeft' = opsLeft - 1
    /\ pc' = [pc EXCEPT ![Ctl] = "nc_insert"]
    /\ UNCHANGED <<codec, Role, Channels, connErr, connCloseLock, connNotify, tcpOpen,
                   tcpWriteQueue, snd, clo, ccVisited, res, pktWhole, handled, reqAcc,
                   nRead, rdPkt, enqLog, deqLog, respChan, removeCount, outLast,
                   outOwner>>

\* newChannel from its second lock section: the table insert and the dispatcher start
CtlNewChannelInsert ==
    /\ pc[Ctl] = "nc_insert"
    /\ Channels' = InsertChannel(Channels, chans[newCh].Id, newCh)
    /\ pc' = [pc EXCEPT ![Ctl] = "idle", ![Disp(newCh)] = "dp_loop"]
    /\ \E rc \in (IF Role = RoleClient THEN {"nil", "empty"} ELSE {"nil"}) :
          respChan' = [respChan EXCEPT ![newCh] = rc]
    /\ newCh' = NoChan
    /\ UNCHANGED <<codec, Role, MaxChannelId, FreeChannleId, connErr, connCloseLock,
                   connNotify, tcpOpen, tcpWriteQueue, chans, nextObj, snd, clo,
                   ccVisited, res, pktWhole, handled, reqAcc, nRead, rdPkt, enqLog,
                   deqLog, opsLeft, removeCount, outLast, outOwner>>

\* the application calls Close on a channel it holds
CtlChanClose ==
    /\ pc[Ctl] = "idle"
    /\ opsLeft > 0
    /\ opsLeft' = opsLeft - 1
    /\ \E c \in Held : CallChanClose(Ctl, c, "closed by application", chans)
    /\ UNCHANGED <<codec, Role, Channels, MaxChannelId, FreeChannleId, connErr, connCloseLock,
                   connNotify, tcpOpen, tcpWriteQueue, nextObj, ccVisited, pktWhole,
                   handled, reqAcc, nRead, rdPkt, enqLog, deqLog, respChan, newCh,
                   removeCount, outLast, outOwner>>

\* the application calls Close on the connection
CtlConnClose ==
    /\ pc[Ctl] = "idle"
    /\ opsLeft > 0
    /\ opsLeft' = opsLeft - 1
    /\ CallConnClose(Ctl, "closed by application")
    /\ UNCHANGED <<codec, Role, Channels, MaxChannelId, FreeChannleId, connNotify,
                   tcpWriteQueue, chans, nextObj, snd, clo, res, pktWhole, handled,
                   reqAcc, nRead, rdPkt, enqLog, deqLog, respChan, newCh, outLast,
                   outOwner>>

\* the application takes a delivered response from a channel's endpoint
AppReceive(c) ==
    /\ respChan[c] = "full"
    /\ respChan' = [respChan EXCEPT ![c] = "empty"]
    /\ UNCHANGED <<codec, Role, Channels, MaxChannelId, FreeChannleId, connErr, connCloseLock,
                   connNotify, tcpOpen, tcpWriteQueue, chans, nextObj, pc, snd, clo,
                   ccVisited, res, pktWhole, handled, reqAcc, nRead, rdPkt, enqLog,
                   deqLog, newCh, opsLeft, removeCount, outLast, outOwner>>

\* ------------------------------------------------------------------ producers
\* messages an application task sends: the bytes 1..n, so that every slice of the
\* data is recognisable
MsgData(n) == [i \in 1 .. n |-> i]
MsgPaths == {<<1>>, [i \in 1 .. (MaxPathLen + 1) |-> 1]}

ProducerSend(p) ==
    /\ pc[p] = "p_idle"
    /\ \E c \in Held, n \in 1 .. MaxDataLen, path \in MsgPaths :
          CallSendPacket(p, Packet(0, path, chans[c].Id, MsgData(n), c), chans)
    /\ UNCHANGED <<codec, Role, Channels, MaxChannelId, FreeChannleId, connErr, connCloseLock,
                   connNotify, tcpOpen, tcpWriteQueue, chans, nextObj, clo, ccVisited,
                   pktWhole, handled, reqAcc, nRead, rdPkt, enqLog, deqLog, respChan,
                   newCh, opsLeft, removeCount, outLast, outOwner>>

\* --------------------------------------------------------------------- Writer
\* WritePacket returns an error
WritePacketFails(pkt, sockOpen, ioerr) ==
    CreateNetPacketFails(pkt) \/ ~sockOpen \/ ioerr

\* case pkt := <-m.tcpWriteQueue, with the socket accepting or refusing the bytes
WriterStep(ioerr) ==
    /\ pc[Writer] = "wr_loop"
    /\ tcpWriteQueue # <<>>
    /\ tcpWriteQueue' = Tail(tcpWriteQueue)
    /\ IF WritePacketFails(Head(tcpWriteQueue), tcpOpen, ioerr)
       THEN CallConnClose(Writer, "write fail")
       ELSE UNCHANGED <<codec, connErr, connCloseLock, tcpOpen, removeCount, ccVisited, pc>>
    /\ UNCHANGED <<codec, Role, Channels, MaxChannelId, FreeChannleId, connNotify, chans,
                   nextObj, snd, clo, res, pktWhole, handled, reqAcc, nRead, rdPkt,
                   enqLog, deqLog, respChan, newCh, opsLeft, outLast, outOwner>>

WriterWrite == WriterStep(FALSE)
WriterIOError == WriterStep(TRUE)

WriterStop ==
    /\ pc[Writer] = "wr_loop"
    /\ ~connNotify
    /\ pc' = [pc EXCEPT ![Writer] = "done"]
    /\ UNCHANGED <<codec, Role, Channels, MaxChannelId, FreeChannleId, connErr, connCloseLock,
                   connNotify, tcpOpen, tcpWriteQueue, chans, nextObj, snd, clo,
                   ccVisited, res, pktWhole, handled, reqAcc, nRead, rdPkt, enqLog,
                   deqLog, respChan, newCh, opsLeft, removeCount, outLast, outOwner>>

\* --------------------------------------------------------------------- Reader
\* what the peer can put on the socket: a frame header, a data length, and the
\* field (if any) in which the read fails
InPaths == {<<1>>}
\* a path one byte longer than MaxPathLen
LongPath == [i \in 1 .. (MaxPathLen + 1) |-> 1]
ShortReads == {"none", "status", "path", "id", "len", "data"}
InDataLens == {0, MaxPacketSize, MaxPacketSize + 1}
InFrames ==
    [Status : 0 .. 9, Path : InPaths, ChannelId : 0 .. MaxUint32,
     DataLen : InDataLens, short : {"none"}]
    \cup [Status : {StatusC1, StatusS5}, Path : InPaths, ChannelId : {0},
          DataLen : {MaxPacketSize}, short : ShortReads]
    \cup [Status : {StatusC1, StatusS5}, Path : {LongPath}, ChannelId : {0},
          DataLen : {MaxPacketSize}, short : {"none"}]

\* the payload of the k-th frame read: DataLen bytes, each k
InData(k, n) == [i \in 1 .. n |-> k]

\* the status check of the Reader of a connection of the given role
CheckPacketStatus(role, prev, current) ==
    IF role = RoleServer THEN CheckClientPacketStatus(prev, current)
                         ELSE CheckServerPacketStatus(prev, current)

\* a read loop whose length limit is off by one
ReadLoopErrorLaxLimit(role, tbl, chs, f) ==
    CASE f.short = "status" -> "read data fail"
      [] f.Status = Status8 -> "connection closed by peer command"
      [] f.short \in {"path", "id"} -> "read data fail"
      [] f.ChannelId \notin DOMAIN tbl -> "invalid channel id"
      [] ~CheckPacketStatus(role, chs[tbl[f.ChannelId]].packetStatus, f.Status) ->
            "invalid protocol"
      [] f.short = "len" -> "read data fail"
      [] f.DataLen > MaxPacketSize + 1 -> "read data len meta > max-packet-size"
      [] f.DataLen = 0 -> "invalid data len"
      [] f.short = "data" -> "read data fail"
      [] OTHER -> "nil"

\* a read loop that leaves a close frame to the channel's dispatcher
ReadLoopErrorX8ToDispatcher(role, tbl, chs, f) ==
    CASE f.short = "status" -> "read data fail"
      [] f.short \in {"path", "id"} -> "read data fail"
      [] f.ChannelId \notin DOMAIN tbl -> "invalid channel id"
      [] f.Status # Status8
         /\ ~CheckPacketStatus(role, chs[tbl[f.ChannelId]].packetStatus, f.Status) ->
            "invalid protocol"
      [] f.short = "len" -> "read data fail"
      [] f.DataLen > MaxPacketSize -> "read data len meta > max-packet-size"
      [] f.DataLen = 0 -> "invalid data len"
      [] f.short = "data" -> "read data fail"
      [] OTHER -> "nil"

\* the error with which a read loop closes the connection on frame f, "nil" if
\* the frame is accepted; the tests are in the order of the loop body
ReadLoopError(role, tbl, chs, f) ==
    CASE f.short = "status" -> "read data fail"
      [] f.Status = Status8 -> "connection closed by peer command"
      [] f.short \in {"path", "id"} -> "read data fail"
      [] f.ChannelId \notin DOMAIN tbl -> "invalid channel id"
      [] ~CheckPacketStatus(role, chs[tbl[f.ChannelId]].packetStatus, f.Status) ->
            "invalid protocol"
      [] f.short = "len" -> "read data fail"
      [] f.DataLen > MaxPacketSize -> "read data len meta > max-packet-size"
      [] f.DataLen = 0 -> "invalid data len"
      [] f.short = "data" -> "read data fail"
      [] OTHER -> "nil"

\* top of the read loop:  if m.err != nil { break }
ReaderTop ==
    /\ pc[Reader] = "rd_top"
    /\ pc' = [pc EXCEPT ![Reader] = IF connErr # "nil" THEN "done" ELSE "rd_read"]
    /\ UNCHANGED <<codec, Role, Channels, MaxChannelId, FreeChannleId, connErr, connCloseLock,
                   connNotify, tcpOpen, tcpWriteQueue, chans, nextObj, snd, clo,
                   ccVisited, res, pktWhole, handled, reqAcc, nRead, rdPkt, enqLog,
                   deqLog, respChan, newCh, opsLeft, removeCount, outLast, outOwner>>

\* one pass of the loop body on frame f, up to the enqueue or the Close
ReaderFrame(f) ==
    /\ pc[Reader] = "rd_read"
    /\ nRead < MaxFrames
    /\ nRead' = nRead + 1
    /\ LET e == ReadLoopError(Role, Channels, chans, f)
       IN  IF e # "nil"
           THEN /\ CallConnClose(Reader, e)
                /\ UNCHANGED <<codec, chans, rdPkt>>
           ELSE LET c == Channels[f.ChannelId]
                IN  /\ chans' = [chans EXCEPT ![c].packetStatus = f.Status]
                    /\ rdPkt' = Packet(f.Status, f.Path, f.ChannelId,
                                       InData(nRead + 1, f.DataLen), c)
                    /\ pc' = [pc EXCEPT ![Reader] = "rd_enq"]
                    /\ UNCHANGED <<codec, connErr, connCloseLock, tcpOpen, removeCount,
                                   ccVisited>>
    /\ UNCHANGED <<codec, Role, Channels, MaxChannelId, FreeChannleId, connNotify,
                   tcpWriteQueue, nextObj, snd, clo, res, pktWhole, handled, reqAcc,
                   enqLog, deqLog, respChan, newCh, opsLeft, outLast, outOwner>>

\* the read of the status byte fails because the socket has been closed
ReaderSocketClosed ==
    /\ pc[Reader] = "rd_read"
    /\ ~tcpOpen
    /\ CallConnClose(Reader, "read data fail")
    /\ UNCHANGED <<codec, Role, Channels, MaxChannelId, FreeChannleId, connNotify,
                   tcpWriteQueue, chans, nextObj, snd, clo, res, pktWhole, handled,
                   reqAcc, nRead, rdPkt, enqLog, deqLog, respChan, newCh, opsLeft,
                   outLast, outOwner>>

\* channel.receivedQueue <- pkt
ReaderEnqueue ==
    /\ pc[Reader] = "rd_enq"
    /\ LET c == rdPkt.channel
       IN  /\ Len(chans[c].receivedQueue) < RecvQueueLen
           /\ chans' = [chans EXCEPT ![c].receivedQueue = Append(@, rdPkt)]
           /\ enqLog' = [enqLog EXCEPT ![c] = Append(@, rdPkt.Data[1])]
    /\ rdPkt' = NoPacket
    /\ pc' = [pc EXCEPT ![Reader] = "rd_top"]
    /\ UNCHANGED <<codec, Role, Channels, MaxChannelId, FreeChannleId, connErr, connCloseLock,
                   connNotify, tcpOpen, tcpWriteQueue, nextObj, snd, clo, ccVisited,
                   res, pktWhole, handled, reqAcc, nRead, deqLog, respChan, newCh,
                   opsLeft, removeCount, outLast, outOwner>>

\* ---------------------------------------------------------------- dispatchers
\* a receive that takes the newest element
DequeuedNewest(q) == q[Len(q)]
\* pkt := <-m.receivedQueue
Dequeued(q) == Head(q)
AfterDequeue(q) == Tail(q)

\* the merge step: pktWholeRequest / pktWholeResponse after frame pkt
Merge(whole, pkt) ==
    IF whole = NoPacket THEN pkt
    ELSE [whole EXCEPT !.Data = whole.Data \o pkt.Data, !.Status = pkt.Status]

\* the packet handleServerLoop passes to handler.Handle
ServerHandlerArg(whole, pkt) == pkt
\* the packet handleClientLoop passes to handler.Handle
ClientHandlerArg(whole, pkt) == whole

\* the test after which handleServerLoop sets pktWholeRequest = nil
ServerResets(status) == isServerStatusCompleted(status)
\* the test after which handleClientLoop sets pktWholeResponse = nil
ClientResets(status) == isServerStatusCompleted(status)

\* results handler.Handle can give: a payload or none, and no error,
\* ErrPacketContinue or another error
HandlerRets == {"nil", "data"}
HandlerErrs == {"nil", "continue", "other"}
RespData == <<7>>
ErrRespData == <<9>>

\* the packets handleServerLoop sends after the handler returned (ret, err), in order
ServerResponses(ret, err, pkt, c) ==
    LET first == IF err \notin {"nil", "continue"} THEN <<>>
                 ELSE IF ret = "nil" THEN <<>>
                 ELSE <<Packet(0, pkt.Path, pkt.ChannelId, RespData, c)>>
        err2 == IF err \notin {"nil", "continue"} THEN "handle error"
                ELSE IF ret = "nil" THEN "no response"
                ELSE err
        second == IF err2 \notin {"nil", "continue"}
                  THEN <<Packet(0, pkt.Path, pkt.ChannelId, ErrRespData, c)>>
                  ELSE <<>>
    IN  first \o second

Observe(c, arg, completed, acc) ==
    [handled EXCEPT ![c] = [called |-> TRUE, completed |-> completed,
                            Data |-> arg.Data, expect |-> acc]]

\* case <-m.closeNotify: return
DispStop(c) ==
    /\ pc[Disp(c)] = "dp_loop"
    /\ ~chans[c].closeNotify
    /\ pc' = [pc EXCEPT ![Disp(c)] = "done"]
    /\ UNCHANGED <<codec, Role, Channels, MaxChannelId, FreeChannleId, connErr, connCloseLock,
                   connNotify, tcpOpen, tcpWriteQueue, chans, nextObj, snd, clo,
                   ccVisited, res, pktWhole, handled, reqAcc, nRead, rdPkt, enqLog,
                   deqLog, respChan, newCh, opsLeft, removeCount, outLast, outOwner>>

\* case pkt := <-m.receivedQueue of handleServerLoop, up to the SendPacket
DispServerFrame(c) ==
    /\ Role = RoleServer
    /\ pc[Disp(c)] = "dp_loop"
    /\ chans[c].receivedQueue # <<>>
    /\ LET pkt == Dequeued(chans[c].receivedQueue)
           chs == [chans EXCEPT ![c].receivedQueue = AfterDequeue(@)]
           whole == Merge(pktWhole[c], pkt)
           acc == reqAcc[c] \o pkt.Data
           done == isClientStatusCompleted(pkt.Status)
       IN  /\ deqLog' = [deqLog EXCEPT ![c] = Append(@, pkt.Data[1])]
           /\ IF pkt.Status = Status8
              THEN /\ CallChanClose(Disp(c), c, "closed by peer command", chs)
                   /\ UNCHANGED <<codec, pktWhole, handled, reqAcc>>
              ELSE /\ handled' = Observe(c, ServerHandlerArg(whole, pkt), done, acc)
                   /\ reqAcc' = [reqAcc EXCEPT ![c] = IF done THEN <<>> ELSE acc]
                   /\ pktWhole' = [pktWhole EXCEPT ![c] =
                                     IF ServerResets(pkt.Status) THEN NoPacket ELSE whole]
                   /\ chans' = chs
                   /\ clo' = clo
                   /\ \E ret \in HandlerRets, err \in HandlerErrs :
                         LET out == ServerResponses(ret, err, pkt, c)
                         IN  IF out = <<>>
                             THEN UNCHANGED <<codec, pc, snd, res>>
                             ELSE CallSendPacket(Disp(c), out[1], chs)
    /\ UNCHANGED <<codec, Role, Channels, MaxChannelId, FreeChannleId, connErr, connCloseLock,
                   connNotify, tcpOpen, tcpWriteQueue, nextObj, ccVisited, nRead,
                   rdPkt, enqLog, respChan, newCh, opsLeft, removeCount, outLast,
                   outOwner>>

\* case pkt := <-m.receivedQueue of handleClientLoop, up to the delivery
DispClientFrame(c) ==
    /\ Role = RoleClient
    /\ pc[Disp(c)] = "dp_loop"
    /\ chans[c].receivedQueue # <<>>
    /\ LET pkt == Dequeued(chans[c].receivedQueue)
           chs == [chans EXCEPT ![c].receivedQueue = AfterDequeue(@)]
           whole == Merge(pktWhole[c], pkt)
           acc == reqAcc[c] \o pkt.Data
           done == isServerStatusCompleted(pkt.Status)
       IN  /\ deqLog' = [deqLog EXCEPT ![c] = Append(@, pkt.Data[1])]
           /\ IF pkt.Status = Status8
              THEN /\ CallChanClose(Disp(c), c, "closed by peer command", chs)
                   /\ UNCHANGED <<codec, pktWhole, handled, reqAcc>>
              ELSE /\ handled' = Observe(c, ClientHandlerArg(whole, pkt), done, acc)
                   /\ reqAcc' = [reqAcc EXCEPT ![c] = IF done THEN <<>> ELSE acc]
                   /\ pktWhole' = [pktWhole EXCEPT ![c] =
                                     IF ClientResets(pkt.Status) THEN NoPacket ELSE whole]
                   /\ chans' = chs
                   /\ pc' = [pc EXCEPT ![Disp(c)] =
                               IF done /\ respChan[c] # "nil" THEN "dp_deliver"
                                                              ELSE "dp_loop"]
                   /\ UNCHANGED <<codec, snd, clo, res>>
    /\ UNCHANGED <<codec, Role, Channels, MaxChannelId, FreeChannleId, connErr, connCloseLock,
                   connNotify, tcpOpen, tcpWriteQueue, nextObj, ccVisited, nRead,
                   rdPkt, enqLog, respChan, newCh, opsLeft, removeCount, outLast,
                   outOwner>>

\* cc <- pktWholeResponse
DispDeliver(c) ==
    /\ pc[Disp(c)] = "dp_deliver"
    /\ respChan[c] = "empty"
    /\ respChan' = [respChan EXCEPT ![c] = "full"]
    /\ pc' = [pc EXCEPT ![Disp(c)] = "dp_loop"]
    /\ UNCHANGED <<codec, Role, Channels, MaxChannelId, FreeChannleId, connErr, connCloseLock,
                   connNotify, tcpOpen, tcpWriteQueue, chans, nextObj, snd, clo,
                   ccVisited, res, pktWhole, handled, reqAcc, nRead, rdPkt, enqLog,
                   deqLog, newCh, opsLeft, removeCount, outLast, outOwner>>

\* ----------------------------------------------------------- the specification
NoHandled == [called |-> FALSE, completed |-> FALSE, Data |-> <<>>, expect |-> <<>>]

\* ------------------------------------------------------------------ the codec
\* binary.BigEndian.PutUint32
PutUint32(v) ==
    <<(v \div 16777216) % 256, (v \div 65536) % 256, (v \div 256) % 256, v % 256>>

\* binary.BigEndian.Uint32
Uint32(b) == b[1] * 16777216 + b[2] * 65536 + b[3] * 256 + b[4]

\* the bytes CreateNetPacket returns when it returns no error
CreateNetPacket(pkt) ==
    <<pkt.Status>> \o pkt.Path \o <<0>> \o PutUint32(pkt.ChannelId)
        \o PutUint32(Len(pkt.Data)) \o pkt.Data

\* bufReader.ReadSlice(0) from position `from` of b: the position of the first
\* 0 byte, or 0 when the input ends before one
ReadSlice0(b, from) ==
    LET zs == {i \in from .. Len(b) : b[i] = 0}
    IN  IF zs = {} THEN 0 ELSE CHOOSE i \in zs : \A j \in zs : i <= j

NoParse == [err |-> "none", Status |-> NoStatus, Path |-> <<>>, ChannelId |-> 0,
            Data |-> <<>>, consumed |-> 0]

ParseFail(e) == [NoParse EXCEPT !.err = e]

\* what one pass of the read loop makes of the bytes b, the channel lookup and
\* the status check left aside: the error it closes the connection with, or the
\* packet it builds and the number of bytes it has taken
ParseFrame(b) ==
    IF Len(b) < 1 THEN ParseFail("read data fail")
    ELSE IF b[1] = Status8 THEN ParseFail("connection closed by peer command")
    ELSE LET z == ReadSlice0(b, 2)
         IN  IF z = 0 THEN ParseFail("read data fail")
             ELSE IF Len(b) < z + 4 THEN ParseFail("read data fail")
             ELSE IF Len(b) < z + 8 THEN ParseFail("read data fail")
             ELSE LET dataLen == Uint32(SubSeq(b, z + 5, z + 8))
                  IN  IF dataLen > MaxPacketSize
                      THEN ParseFail("read data len meta > max-packet-size")
                      ELSE IF dataLen = 0 THEN ParseFail("invalid data len")
                      ELSE IF Len(b) < z + 8 + dataLen THEN ParseFail("read data fail")
                      ELSE [err |-> "nil",
                            Status |-> b[1],
                            Path |-> SubSeq(b, 2, z - 1),
                            ChannelId |-> Uint32(SubSeq(b, z + 1, z + 4)),
                            Data |-> SubSeq(b, z + 9, z + 8 + dataLen),
                            consumed |-> z + 8 + dataLen]

NoCodec == [pc |-> "off", pkt |-> NoPacket, bytes |-> <<>>, out |-> NoParse]

\* byte strings of up to n bytes over the byte values bs
RECURSIVE ByteStrings(_, _)
ByteStrings(bs, n) ==
    IF n = 0 THEN {<<>>}
    ELSE LET shorter == ByteStrings(bs, n - 1)
         IN  shorter \cup {Append(x, b) : x \in {y \in shorter : Len(y) = n - 1}, b \in bs}

\* packets given to CreateNetPacket: paths and data up to one byte over the
\* limits, channel ids that need more than one byte
CodecStatuses == {StatusC0, StatusC1, StatusS5, StatusS7}
CodecChannelIds == {0, 1, 258, 16777217}
CodecPackets ==
    {Packet(st, path, cid, data, NoChan) :
        st \in CodecStatuses,
        path \in ByteStrings({0, 47}, MaxPathLen + 1),
        cid \in CodecChannelIds,
        data \in ByteStrings({0, 9}, MaxPacketSize + 1)}

\* data, err := CreateNetPacket(pkt)
CodecEncode ==
    /\ codec.pc = "new"
    /\ codec' = IF CreateNetPacketFails(codec.pkt)
                THEN [codec EXCEPT !.pc = "rejected"]
                ELSE [codec EXCEPT !.pc = "encoded", !.bytes = CreateNetPacket(codec.pkt)]
    /\ UNCHANGED connVars

\* the peer's read loop takes the bytes from the socket
CodecParse ==
    /\ codec.pc = "encoded"
    /\ codec' = [codec EXCEPT !.pc = "parsed", !.out = ParseFrame(codec.bytes)]
    /\ UNCHANGED connVars

\* the state NewConnection returns: the system channel in the table, its
\* dispatcher, the read loop and the write loop started
InitConn(n) ==
    /\ Role \in {RoleClient, RoleServer}
    /\ Channels = (0 :> 0)
    /\ MaxChannelId = 0
    /\ FreeChannleId = {}
    /\ connErr = "nil"
    /\ connCloseLock = NoThread
    /\ connNotify = TRUE
    /\ tcpOpen = TRUE
    /\ tcpWriteQueue = <<>>
    /\ chans = [c \in ChanObjs |-> NewChannelRecord(0)]
    /\ nextObj = 1
    /\ pc = [t \in Threads |->
               CASE t = Reader -> "rd_top"
                 [] t = Writer -> "wr_loop"
                 [] t = Ctl -> "idle"
                 [] t \in Producers -> "p_idle"
                 [] t = Disp(0) -> "dp_loop"
                 [] OTHER -> "off"]
    /\ snd = [t \in Threads |-> NoSend]
    /\ clo = [t \in Threads |-> NoClose]
    /\ ccVisited = {}
    /\ res = [p \in Producers |-> "none"]
    /\ pktWhole = [c \in ChanObjs |-> NoPacket]
    /\ handled = [c \in ChanObjs |-> NoHandled]
    /\ reqAcc = [c \in ChanObjs |-> <<>>]
    /\ nRead = 0
    /\ rdPkt = NoPacket
    /\ enqLog = [c \in ChanObjs |-> <<>>]
    /\ deqLog = [c \in ChanObjs |-> <<>>]
    /\ respChan = [c \in ChanObjs |-> "nil"]
    /\ newCh = NoChan
    /\ opsLeft = n
    /\ removeCount = 0
    /\ outLast = [c \in ChanObjs |-> NoStatus]
    /\ outOwner = [c \in ChanObjs |-> NoThread]

\* a connection on which no packet is being taken through the codec
InitOps(n) == InitConn(n) /\ codec = NoCodec

\* the steps inside SendPacket, Channel.Close and Connection.Close, whoever calls
Calls ==
    \/ \E t \in Threads : SendLock(t)
    \/ \E t \in Threads : SendEnqueue(t)
    \/ \E t \in Threads : ChanCloseRest(t)
    \/ \E t \in Threads : ConnCloseChannel(t)
    \/ \E t \in Threads : ConnCloseEnd(t)

Control ==
    \/ CtlNewChannelAlloc
    \/ CtlNewChannelInsert
    \/ CtlChanClose
    \/ CtlConnClose

Writing ==
    \/ WriterWrite
    \/ WriterStop

Receiving ==
    \/ ReaderTop
    \/ \E f \in InFrames : ReaderFrame(f)
    \/ ReaderSocketClosed
    \/ ReaderEnqueue
    \/ \E c \in ChanObjs : DispStop(c)
    \/ \E c \in ChanObjs : DispServerFrame(c)
    \/ \E c \in ChanObjs : DispClientFrame(c)
    \/ \E c \in ChanObjs : DispDeliver(c)
    \/ \E c \in ChanObjs : AppReceive(c)

Sending == \E p \in Producers : ProducerSend(p)

\* the connection with a peer that sends and an application that creates and closes
NextRecv == Calls \/ Control \/ Writing \/ Receiving
SpecRecv == InitOps(RecvCtlOps) /\ [][NextRecv]_vars

\* the connection with an application that sends, creates and closes, and a silent peer
NextSend == Calls \/ Control \/ Writing \/ WriterIOError \/ Sending
SpecSend == InitOps(SendCtlOps) /\ [][NextSend]_vars

\* the steps of goroutine t once it is inside a call; the Go scheduler runs
\* every runnable goroutine eventually
Runs(t) ==
    \/ SendLock(t)
    \/ SendEnqueue(t)
    \/ ChanCloseRest(t)
    \/ ConnCloseChannel(t)
    \/ ConnCloseEnd(t)

\* SpecSend with every goroutine scheduled fairly; what the application and the
\* network do (new calls, I/O errors) is not forced
FairSend ==
    /\ SpecSend
    /\ \A t \in Threads : WF_vars(Runs(t))
    /\ WF_vars(Writing)

\* a packet encoded by one side and parsed by the other
InitCodec ==
    /\ InitConn(0)
    /\ codec \in {[NoCodec EXCEPT !.pc = "new", !.pkt = p] : p \in CodecPackets}
NextCodec == CodecEncode \/ CodecParse
SpecCodec == InitCodec /\ [][NextCodec]_vars

\* the steps the read loop takes by itself: the peer's frames are not forced,
\* the failing read on a closed socket is
ReaderRuns ==
    \/ ReaderTop
    \/ ReaderSocketClosed
    \/ ReaderEnqueue

\* the steps of the dispatcher of channel object c
DispRuns(c) ==
    \/ DispStop(c)
    \/ DispServerFrame(c)
    \/ DispClientFrame(c)
    \/ DispDeliver(c)

\* no goroutine of the connection can take a step by itself: what is left is
\* up to the peer and the application
Quiescent == ~ENABLED (Calls \/ Writing \/ ReaderRuns \/ \E c \in ChanObjs : DispRuns(c))

\* the connection with an application that only creates and closes
NextChan == Calls \/ Control \/ Writing \/ WriterIOError
SpecChan == InitOps(ChanCtlOps) /\ [][NextChan]_vars

\* ====================================================================== claims
\* the legal transition table, as the specification states it
LegalClientOrigin(prev, status) ==
    \/ status \in {StatusC0, StatusC1} /\ prev \in {NoStatus, StatusC1, StatusC3}
    \/ status \in {StatusC2, StatusC3} /\ prev \in {StatusC0, StatusC2}
LegalServerOrigin(prev, status) ==
    \/ status \in {StatusS4, StatusS5} /\ prev \in {NoStatus, StatusS5, StatusS7}
    \/ status \in {StatusS6, StatusS7} /\ prev \in {StatusS4, StatusS6}
\* the table the Reader of a connection of the given role has to enforce
LegalInbound(role, prev, status) ==
    IF role = RoleServer THEN LegalClientOrigin(prev, status)
                         ELSE LegalServerOrigin(prev, status)

Statuses(q) == [i \in 1 .. Len(q) |-> q[i].Status]
Numbers(q) == [i \in 1 .. Len(q) |-> q[i].Data[1]]
LegalChain(role, st) ==
    \A i \in 1 .. Len(st) :
       IF i = 1 THEN \E prev \in {NoStatus} \cup (0 .. 7) : LegalInbound(role, prev, st[i])
                ELSE LegalInbound(role, st[i - 1], st[i])

\* the frames accepted for channel object c and not yet dispatched, oldest first
Accepted(c) ==
    chans[c].receivedQueue \o (IF rdPkt.channel = c THEN <<rdPkt>> ELSE <<>>)

\* the Reader's step on frame f leaves every inbound queue and every last_status alone
RejectedUntouched ==
    /\ connErr' # "nil"
    /\ rdPkt' = NoPacket
    /\ pc'[Reader] # "rd_enq"
    /\ \A c \in ChanObjs : /\ chans'[c].receivedQueue = chans[c].receivedQueue
                           /\ chans'[c].packetStatus = chans[c].packetStatus

\* frame f is one the table forbids on its channel
C1_Forbidden(f) ==
    /\ f.ChannelId \in DOMAIN Channels
    /\ ~LegalInbound(Role, chans[Channels[f.ChannelId]].packetStatus, f.Status)

\* a step in which the Reader accepts a frame: the frame is a legal successor of
\* the last_status of the channel the table names, and becomes its last_status
C1_Accept ==
    (pc[Reader] = "rd_read" /\ pc'[Reader] = "rd_enq") =>
        /\ rdPkt'.ChannelId \in DOMAIN Channels
        /\ rdPkt'.channel = Channels[rdPkt'.ChannelId]
        /\ LegalInbound(Role, chans[rdPkt'.channel].packetStatus, rdPkt'.Status)
        /\ chans'[rdPkt'.channel].packetStatus = rdPkt'.Status

\* a step of the Reader on a forbidden frame closes and touches nothing
C1_Reject ==
    (pc[Reader] = "rd_read" /\ ~RejectedUntouched) =>
        \A f \in InFrames : C1_Forbidden(f) => ~ReaderFrame(f)

C1_Queues ==
    \A c \in ChanObjs :
       /\ LegalChain(Role, Statuses(Accepted(c)))
       /\ Accepted(c) # <<>> =>
             Accepted(c)[Len(Accepted(c))].Status = chans[c].packetStatus

\* C1: every frame the Reader accepts for a channel is a legal successor of that
\* channel's last_status (C0/C1 after the sentinel, C1 or C3; C2/C3 after C0 or
\* C2; S4..S7 likewise on a client); a frame with any other status, or an illegal
\* transition, closes the connection, changes no last_status and reaches no
\* inbound queue; the queues hold legal chains only.
C1_ReaderEnforcesTable ==
    /\ []C1_Queues
    /\ [][C1_Accept /\ C1_Reject]_vars

\* a server Reader has accepted C3, the end of a fragmented request
C1_Witness ==
    /\ Role = RoleServer
    /\ pc[Reader] = "rd_enq"
    /\ rdPkt.Status = StatusC3
    /\ connErr = "nil"

\* C3 (as claimed): on a server, the message handed to the handler with a
\* completed frame carries the concatenation, in order, of the payloads of all
\* frames of that request.
C3_HandlerGetsWholeRequest ==
    Role = RoleServer =>
        \A c \in ChanObjs :
           (handled[c].called /\ handled[c].completed) =>
               handled[c].Data = handled[c].expect

\* C7: per channel, what the dispatcher has dequeued followed by what is still
\* queued is exactly what the Reader enqueued, in the Reader's order: nothing
\* is dropped, duplicated or reordered between the two.
C7_PerChannelFifo ==
    \A c \in ChanObjs :
       deqLog[c] \o Numbers(chans[c].receivedQueue) = enqLog[c]

\* a dispatcher has taken two frames in order while a third waits in its queue
C7_Witness ==
    \E c \in ChanObjs :
       /\ Len(deqLog[c]) >= 2
       /\ chans[c].receivedQueue # <<>>

\* frame f names no channel of the table, or has a bad length, or is cut short
C9_Bad(f) ==
    \/ f.ChannelId \notin DOMAIN Channels
    \/ f.DataLen = 0
    \/ f.DataLen > MaxPacketSize
    \/ f.short # "none"

\* C9: a Reader (of either role) that reads a frame for an unknown channel id,
\* with data_len 0 or above MaxPacketSize, or whose read fails, closes the
\* connection, enqueues nothing and changes no channel's last_status.
C9_ReaderRejectsBadFrames ==
    [][(pc[Reader] = "rd_read" /\ ~RejectedUntouched) =>
          /\ \A f \in InFrames : C9_Bad(f) => ~ReaderFrame(f)
          /\ ~ReaderSocketClosed]_vars

\* after an accepted frame, a frame with data_len 0 has closed the connection
\* and the channel's last_status is still that of the accepted frame
C9_Witness ==
    /\ connErr = "invalid data len"
    /\ nRead = 2
    /\ rdPkt = NoPacket
    /\ chans[0].packetStatus \in {StatusC0, StatusS4}
    /\ Len(enqLog[0]) = 1

RECURSIVE Concat(_)
Concat(fs) == IF fs = <<>> THEN <<>> ELSE Head(fs).Data \o Concat(Tail(fs))

\* the table the peer's Reader applies to what a connection of the given role sends
LegalOutbound(role, prev, status) ==
    IF role = RoleClient THEN LegalClientOrigin(prev, status)
                         ELSE LegalServerOrigin(prev, status)

\* thread t puts a frame of its SendPacket on the outbound queue in this step
Enqueues(t) == pc[t] = "sp_enq" /\ snd'[t] # snd[t]

\* the frames of p's message enqueued up to and including this step
C2_Frames(p) == Append(snd[p].burst, tcpWriteQueue'[Len(tcpWriteQueue')])

C2_Step(p) ==
    LET fs == C2_Frames(p)
        data == snd[p].pkt.Data
        N == Len(data)
        final == pc'[p] # "sp_enq"
        got == Concat(fs)
    IN  /\ \A i \in 1 .. Len(fs) : Len(fs[i].Data) <= MaxPacketSize
        /\ Len(got) <= N
        /\ got = SubSeq(data, 1, Len(got))
        /\ final <=> (got = data)
        /\ \A i \in 1 .. Len(fs) :
              fs[i].Status =
                 IF final /\ i = Len(fs)
                 THEN (IF N <= MaxPacketSize THEN StatusC1 ELSE StatusC3)
                 ELSE (IF i = 1 THEN StatusC0 ELSE StatusC2)
        /\ \A i \in 1 .. Len(fs) :
              LegalClientOrigin(IF i = 1 THEN NoStatus ELSE fs[i - 1].Status,
                                fs[i].Status)

\* C2: the frames a client's SendPacket enqueues for a message of N >= 1 bytes
\* carry at most MaxPacketSize bytes each, concatenate in order to the message,
\* end with C1 if N <= MaxPacketSize and with C3 otherwise, are C0 then C2s
\* before that, and form a sequence the server Reader's table accepts.
C2_Fragmentation ==
    [][\A p \in Producers : (Role = RoleClient /\ Enqueues(p)) => C2_Step(p)]_vars

\* a client is about to send the last frame of a message of 2*MaxPacketSize+1
\* bytes, two full frames of it already being enqueued
C2_Witness ==
    \E p \in Producers :
       /\ Role = RoleClient
       /\ pc[p] = "sp_enq"
       /\ Len(snd[p].pkt.Data) = 2 * MaxPacketSize + 1
       /\ Len(snd[p].burst) = 2
       /\ snd[p].remain = 1

\* C4 (as claimed): a second or later Close of a channel changes neither the
\* channel table, nor the free-id set, nor the channel's terminal error, nor the
\* outbound queue.
C4_CloseIdempotent ==
    [][\A t \in Threads :
          (pc[t] = "chc_rest" /\ pc'[t] # "chc_rest" /\ chans[clo[t].ch].err # "nil") =>
              /\ Channels' = Channels
              /\ FreeChannleId' = FreeChannleId
              /\ chans'[clo[t].ch].err = chans[clo[t].ch].err
              /\ tcpWriteQueue' = tcpWriteQueue]_vars

\* C5 (as claimed): allocation returns neither 0 nor an id of the channel
\* table, and fails when the ids are exhausted; creating a channel leaves every
\* existing entry of the table as it is.
C5_AllocationFresh ==
    [][/\ (pc[Ctl] = "idle" /\ pc'[Ctl] = "nc_insert") =>
              /\ chans'[newCh'].Id # 0
              /\ chans'[newCh'].Id \notin DOMAIN Channels
       /\ (pc[Ctl] = "nc_insert" /\ pc'[Ctl] = "idle") =>
              \A id \in DOMAIN Channels :
                 id \in DOMAIN Channels' /\ Channels'[id] = Channels[id]]_vars

\* C6: a frame is put on the outbound queue for a channel only while no other
\* task is inside an unfinished fragment burst on that channel, so each
\* message's frames are contiguous per channel and the channel's status
\* sequence is one the peer's Reader accepts.
C6_BurstsContiguous ==
    [][\A t \in Threads :
          Enqueues(t) =>
             LET c == snd[t].pkt.channel
             IN  /\ outOwner[c] \in {NoThread, t}
                 /\ LegalOutbound(Role, outLast[c], outLast'[c])]_vars

\* one task is inside a burst on a channel while another waits for its sendLock
C6_Witness ==
    \E p \in Producers, q \in Producers :
       /\ p # q
       /\ pc[p] = "sp_enq"
       /\ snd[p].burst # <<>>
       /\ pc[q] = "sp_lock"
       /\ snd[q].pkt.channel = snd[p].pkt.channel
       /\ Len(snd[q].pkt.Data) > MaxPacketSize

\* p waits in SendPacket to put a frame on the outbound queue, which is full
BlockedOnFullQueue(p) ==
    pc[p] = "sp_enq" /\ Len(tcpWriteQueue) = WriteQueueLen

\* C8 (as claimed): a SendPacket blocked on the full outbound queue while the
\* connection is terminated ends, and returns a ConnectionClosed error.
C8_BlockedSenderReleased ==
    \A p \in Producers :
       [](BlockedOnFullQueue(p) /\ connErr # "nil"
             => <>(pc[p] = "p_done" /\ res[p] = "err"))

\* C10 (as claimed): a message whose path is longer than MaxPathLen makes its
\* SendPacket return an error, and the Writer's handling of it leaves the
\* connection open.
C10_PathTooLongOnlyFailsSend ==
    [][/\ \A p \in Producers :
             (Enqueues(p) /\ pc'[p] = "p_done" /\ Len(snd[p].pkt.Path) > MaxPathLen) =>
                 res'[p] = "err"
       /\ (/\ connErr = "nil"
           /\ tcpWriteQueue # <<>>
           /\ Len(Head(tcpWriteQueue).Path) > MaxPathLen
           /\ WriterStep(FALSE)) => connErr' = "nil"]_vars

\* C11 (as claimed): a packet within the limits that CreateNetPacket encodes is
\* parsed back by the Reader with the same status, path, channel id and data,
\* the parser taking exactly the encoded bytes.
C11_RoundTrip ==
    (/\ codec.pc = "parsed"
     /\ Len(codec.pkt.Path) <= MaxPathLen
     /\ Len(codec.pkt.Data) <= MaxPacketSize) =>
        /\ codec.out.err = "nil"
        /\ codec.out.Status = codec.pkt.Status
        /\ codec.out.Path = codec.pkt.Path
        /\ codec.out.ChannelId = codec.pkt.ChannelId
        /\ codec.out.Data = codec.pkt.Data
        /\ codec.out.consumed = Len(codec.bytes)

\* C12 (as claimed): however often and from wherever Connection.Close is
\* called, the registry removal is performed once and the connection's terminal
\* error keeps the value the first call gave it.
C12_ConnCloseOnce ==
    [][/\ removeCount' <= 1
       /\ connErr # "nil" => connErr' = connErr]_vars

\* channel object c has been returned by newChannel and has not been closed
IsOpen(c) == c \in Held /\ chans[c].err = "nil"

\* channel object c is an entry of the connection's channel table
InTable(c) == \E id \in DOMAIN Channels : Channels[id] = c

\* C13 (as claimed): a channel is in the connection's channel table exactly
\* when it is open, so no operation on one channel removes or replaces the
\* entry of another channel that is still open.
C13_TableIffOpen ==
    \A c \in ChanObjs : c \in Held => (InTable(c) <=> IsOpen(c))

\* the server dispatcher of channel object c takes a data frame in this step
ServerDispatches(c) ==
    /\ Role = RoleServer
    /\ pc[Disp(c)] = "dp_loop"
    /\ deqLog'[c] # deqLog[c]
    /\ Head(chans[c].receivedQueue).Status # Status8

\* C14 (as claimed): the server dispatcher starts sending a response for a
\* dequeued frame only if the frame has status C1 or C3 and the handler did not
\* return ErrPacketContinue; for C0, C2 and for ErrPacketContinue (with or
\* without a payload) it sends nothing, neither payload nor error response.
C14_ResponseOnlyWhenComplete ==
    [][\A c \in ChanObjs :
          (ServerDispatches(c) /\ pc'[Disp(c)] = "sp_lock") =>
             LET pkt == Head(chans[c].receivedQueue)
             IN  /\ isClientStatusCompleted(pkt.Status)
                 /\ \A ret \in HandlerRets :
                       LET out == ServerResponses(ret, "continue", pkt, c)
                       IN  out = <<>> \/ snd'[Disp(c)].pkt # out[1]]_vars

\* the dispatcher of channel object c takes a data frame in this step
Dispatches(c) ==
    /\ pc[Disp(c)] = "dp_loop"
    /\ deqLog'[c] # deqLog[c]
    /\ Head(chans[c].receivedQueue).Status # Status8

\* the frame completes a message, in the alphabet of the side that sent it
CompletesMessage(role, status) ==
    IF role = RoleServer THEN isClientStatusCompleted(status)
                         ELSE isServerStatusCompleted(status)

\* C15 (as claimed): once a dispatcher has handled a frame with a completed
\* status its accumulator is empty, and otherwise it holds the payloads of the
\* current message only.
C15_AccumulatorReset ==
    [][\A c \in ChanObjs :
          Dispatches(c) =>
             IF CompletesMessage(Role, Head(chans[c].receivedQueue).Status)
             THEN pktWhole'[c] = NoPacket
             ELSE pktWhole'[c].Data = reqAcc'[c]]_vars

\* C16 (as claimed): the frame a Close of an open channel puts on the outbound
\* queue has status 8 and the closing channel's id; Close emits no frame with a
\* data status 0..7.
C16_CloseEmitsX8 ==
    [][\A t \in Threads :
          (Enqueues(t) /\ clo[t].ch # NoChan) =>
             LET frame == tcpWriteQueue'[Len(tcpWriteQueue')]
             IN  /\ frame.Status = Status8
                 /\ frame.ChannelId = chans[clo[t].ch].Id]_vars

\* no inbound queue, and no frame the Reader is about to enqueue, has status X8
C17_Queues ==
    \A c \in ChanObjs :
       \A i \in 1 .. Len(Accepted(c)) : Accepted(c)[i].Status # Status8

\* C17: a Reader (of either role) that reads a frame with status X8, whatever
\* its channel id, closes the connection and enqueues nothing; no inbound queue
\* ever holds a frame with status X8 and no dispatcher dequeues one.
C17_X8ClosesConnection ==
    /\ []C17_Queues
    /\ [][(pc[Reader] = "rd_read" /\ ~RejectedUntouched) =>
             \A f \in InFrames : f.Status = Status8 => ~ReaderFrame(f)]_vars
    /\ [][\A c \in ChanObjs :
             (pc[Disp(c)] = "dp_loop" /\ deqLog'[c] # deqLog[c]) =>
                 Head(chans[c].receivedQueue).Status # Status8]_vars

\* after an accepted and enqueued frame, a frame with status X8 has closed the
\* connection
C17_Witness ==
    /\ connErr = "connection closed by peer command"
    /\ nRead = 2
    /\ rdPkt = NoPacket
    /\ Len(enqLog[0]) = 1

\* C18 (as claimed): once Connection.Close has been called, the Reader and the
\* Writer terminate, and so does the Dispatcher of every channel that has been
\* closed: when no goroutine can take a step any more, none of these loops is
\* left waiting.
C18_LoopsTerminate ==
    (connErr # "nil" /\ Quiescent) =>
        /\ pc[Reader] = "done"
        /\ pc[Writer] = "done"
        /\ \A c \in ChanObjs :
              (chans[c].err # "nil" /\ pc[Disp(c)] # "off") => pc[Disp(c)] = "done"

\* C19 (as claimed): a call of Connection.Close that has entered returns: when
\* no goroutine can take a step any more, no caller is left inside Close.
C19_ConnCloseCompletes ==
    Quiescent => connCloseLock = NoThread

\* C20 (as claimed): a frame whose path is longer than MaxPathLen is never
\* enqueued to an inbound queue, so every frame a dispatcher is given has a path
\* of at most MaxPathLen bytes.
C20_InboundPathLimit ==
    \A c \in ChanObjs :
       \A i \in 1 .. Len(chans[c].receivedQueue) :
          Len(chans[c].receivedQueue[i].Path) <= MaxPathLen

====
